---- MODULE Spec2Model ----
(***************************************************************************)
(* A model of flac_lyrics.py: the per-file handler process_file with the   *)
(* helpers it calls (fetch_lyrics, write_lrc_file, embed_lyrics_flac) and  *)
(* the driver loop of main.                                                *)
(*                                                                         *)
(* Three specifications share the operators that model the code:           *)
(*   SpecFile   one call of process_file on one file, every input drawn    *)
(*              from the full input sets (the contract of process_file);   *)
(*   Spec       one run of main over a directory of NumFiles files;        *)
(*   SpecTwice  a run of main followed by a second run with the same       *)
(*              arguments, remote service and user.                        *)
(***************************************************************************)
EXTENDS Integers, Sequences, FiniteSets, TLC

\* ---------------------------------------------------------------- bounds
NumFiles == 2

\* ------------------------------------------------------------ value space
\* Python's None, a key that is not in the Vorbis comment, a path that does
\* not exist, and the pseudo-outcome of a call that raised.
Null == "<None>"
Absent == "<absent>"
NoFile == "<no file>"
Raised == "<raised>"

SyncedText == "[00:01.00]La la"
PlainText == "La la"
OldText == "old lyrics"

Files == 1..NumFiles

\* Python truthiness of an optional string: None and "" are falsy.
Truthy(x) == x # Null /\ x # ""

\* audio.get(key, [None])[0]
VorbisGet(v) == IF v = Absent THEN Null ELSE v

\* What the lyrics service can do for one request.
Unknown == "<not asked>"
NotAsked == [kind |-> Unknown, status |-> 0, syncedLyrics |-> Null, plainLyrics |-> Null]

Responses ==
  { [kind |-> "exception", status |-> 0, syncedLyrics |-> Null, plainLyrics |-> Null],
    [kind |-> "http", status |-> 404, syncedLyrics |-> Null, plainLyrics |-> Null],
    [kind |-> "http", status |-> 200, syncedLyrics |-> SyncedText, plainLyrics |-> PlainText],
    [kind |-> "http", status |-> 200, syncedLyrics |-> "", plainLyrics |-> PlainText],
    [kind |-> "http", status |-> 200, syncedLyrics |-> Null, plainLyrics |-> "" ] }

\* The answers that end the question loop of lines 125-135; any other answer
\* repeats the question, so the answer a call reads is the first of these.
ValidAnswers == {"y", "n", "a"}
LrcIO == {"ok", "open_fails", "write_fails"}
FlacIO == {"ok", "open_fails", "save_fails"}

\* A FLAC file on disk with its sidecar: whether mutagen can parse it, its
\* artist, title and LYRICS comments, and the content of <base>.lrc.
ReadableFiles ==
  [readable : {TRUE}, artist : {Absent, "", "Foo"}, title : {Absent, "", "Bar"},
   LYRICS : {Absent, "", OldText}, lrc : {NoFile, "", OldText}]

CorruptFiles ==
  [readable : {FALSE}, artist : {Absent}, title : {Absent}, LYRICS : {Absent},
   lrc : {NoFile, OldText}]

AnyFile == ReadableFiles \cup CorruptFiles

\* The files of the library the driver specifications walk over.
LibraryFiles ==
  [readable : {TRUE}, artist : {"Foo"}, title : {"Bar"},
   LYRICS : {Absent, OldText}, lrc : {NoFile, OldText}]
  \cup [readable : {TRUE}, artist : {"Foo"}, title : {Absent}, LYRICS : {Absent},
        lrc : {NoFile}]
  \cup [readable : {FALSE}, artist : {Absent}, title : {Absent}, LYRICS : {Absent},
        lrc : {NoFile}]

Args == [directory : {"music", "nowhere"}, force : BOOLEAN, prompt : BOOLEAN,
         dry_run : BOOLEAN]

DirExists(d) == d = "music"

\* ------------------------------------------------------------ fetch_lyrics
fetch_lyrics(resp) ==
  IF resp.kind = "exception" THEN Null
  ELSE IF resp.status = 200
       THEN IF Truthy(resp.syncedLyrics) THEN resp.syncedLyrics
            ELSE IF Truthy(resp.plainLyrics) THEN resp.plainLyrics
            ELSE Null
       ELSE Null

\* ---------------------------------------------------------- write_lrc_file
\* Variant: the sidecar is written whether or not it exists.
write_lrc_file_always(file, lyrics, force, io) ==
  IF io = "open_fails" THEN [file |-> file, ret |-> FALSE, raised |-> TRUE]
  ELSE IF io = "write_fails"
       THEN [file |-> [file EXCEPT !.lrc = ""], ret |-> FALSE, raised |-> TRUE]
       ELSE [file |-> [file EXCEPT !.lrc = lyrics], ret |-> TRUE, raised |-> FALSE]

\* ret: the value returned; raised: the open or the write threw (nothing in
\* write_lrc_file catches it). A write that fails after the open leaves the
\* truncated file behind.
write_lrc_file(file, lyrics, force, io) ==
  IF file.lrc # NoFile /\ ~force
  THEN [file |-> file, ret |-> FALSE, raised |-> FALSE]
  ELSE IF io = "open_fails" THEN [file |-> file, ret |-> FALSE, raised |-> TRUE]
  ELSE IF io = "write_fails"
       THEN [file |-> [file EXCEPT !.lrc = ""], ret |-> FALSE, raised |-> TRUE]
       ELSE [file |-> [file EXCEPT !.lrc = lyrics], ret |-> TRUE, raised |-> FALSE]

\* Variant: an empty field does not count as present.
in_audio_nonempty(v) == v # Absent /\ v # ""

\* "LYRICS" in audio
in_audio(v) == v # Absent

\* ------------------------------------------------------- embed_lyrics_flac
\* Variant: force does not override an existing field.
embed_lyrics_flac_noforce(file, lyrics, force, io) ==
  IF io = "open_fails" THEN [file |-> file, ret |-> FALSE, caught |-> TRUE]
  ELSE IF in_audio(file.LYRICS)
       THEN [file |-> file, ret |-> FALSE, caught |-> FALSE]
  ELSE IF io = "save_fails" THEN [file |-> file, ret |-> FALSE, caught |-> TRUE]
  ELSE [file |-> [file EXCEPT !.LYRICS = lyrics], ret |-> TRUE, caught |-> FALSE]

\* caught: an exception was caught by the except clause. A failed open or
\* save leaves the tags on disk as they were.
embed_lyrics_flac(file, lyrics, force, io) ==
  IF io = "open_fails" THEN [file |-> file, ret |-> FALSE, caught |-> TRUE]
  ELSE IF in_audio(file.LYRICS) /\ ~force
       THEN [file |-> file, ret |-> FALSE, caught |-> FALSE]
  ELSE IF io = "save_fails" THEN [file |-> file, ret |-> FALSE, caught |-> TRUE]
  ELSE [file |-> [file EXCEPT !.LYRICS = lyrics], ret |-> TRUE, caught |-> FALSE]

\* ------------------------------------------------------------ process_file
\* Variant: only None counts as missing.
missing_tags_none_only(artist, title) == artist = Null \/ title = Null

\* not artist or not title
missing_tags(artist, title) == ~Truthy(artist) \/ ~Truthy(title)

\* os.path.exists(lrc_path)
has_lrc(file) == file.lrc # NoFile

\* "LYRICS" in audio
has_tag(file) == in_audio(file.LYRICS)

\* Variant: both must exist.
skip_existing_both(lrc, tag, args) == (lrc /\ tag) /\ ~args.force /\ ~args.prompt

\* (has_lrc or has_tag) and not args.force and not args.prompt
skip_existing(lrc, tag, args) == (lrc \/ tag) /\ ~args.force /\ ~args.prompt

\* Variant: yes_to_all is not consulted.
needs_prompt_always(args, yes) == args.prompt

\* args.prompt and not yes_to_all[0]
needs_prompt(args, yes) == args.prompt /\ ~yes

\* Variant: --force overrides --dry-run.
is_dry_run_unforced(args) == args.dry_run /\ ~args.force

\* if args.dry_run
is_dry_run(args) == args.dry_run

\* The result of a call that has done nothing yet.
NoEffect(file, yes) ==
  [outcome |-> Raised, raised |-> FALSE, file |-> file, yes |-> yes,
   fetched |-> FALSE, lyrics |-> Null, prompted |-> FALSE, answer |-> Null,
   called_lrc |-> FALSE, called_tag |-> FALSE,
   wrote_file |-> FALSE, wrote_tag |-> FALSE,
   lrc_raised |-> FALSE, tag_caught |-> FALSE]

\* Lines 140-146: the two writes and the outcome they give.
write_stage(r, lyrics, args, env) ==
  LET w == write_lrc_file(r.file, lyrics, args.force, env.lrc_io) IN
  IF w.raised
  THEN [r EXCEPT !.called_lrc = TRUE, !.lrc_raised = TRUE, !.raised = TRUE,
                 !.file = w.file]
  ELSE LET e == embed_lyrics_flac(w.file, lyrics, args.force, env.flac_io) IN
       [r EXCEPT !.called_lrc = TRUE, !.called_tag = TRUE,
                 !.wrote_file = w.ret, !.wrote_tag = e.ret,
                 !.tag_caught = e.caught, !.file = e.file,
                 !.outcome = IF w.ret \/ e.ret THEN "updated" ELSE "skipped_existing"]

\* Lines 137-146.
after_prompt(r, lyrics, args, env) ==
  IF is_dry_run(args) THEN [r EXCEPT !.outcome = "dry_run"]
  ELSE write_stage(r, lyrics, args, env)

process_file(file, args, yes, env) ==
  LET r0 == NoEffect(file, yes) IN
  IF ~file.readable THEN [r0 EXCEPT !.outcome = "error"]
  ELSE
  LET artist == VorbisGet(file.artist)
      title == VorbisGet(file.title)
  IN
  IF missing_tags(artist, title) THEN [r0 EXCEPT !.outcome = "missing_tags"]
  ELSE IF skip_existing(has_lrc(file), has_tag(file), args)
       THEN [r0 EXCEPT !.outcome = "skipped_existing"]
  ELSE
  LET lyrics == fetch_lyrics(env.resp)
      r1 == [r0 EXCEPT !.fetched = TRUE, !.lyrics = lyrics]
  IN
  IF ~Truthy(lyrics) THEN [r1 EXCEPT !.outcome = "not_found"]
  ELSE IF needs_prompt(args, yes)
       THEN LET r2 == [r1 EXCEPT !.prompted = TRUE, !.answer = env.ans] IN
            IF env.ans = "a"
            THEN after_prompt([r2 EXCEPT !.yes = TRUE], lyrics, args, env)
            ELSE IF env.ans = "y" THEN after_prompt(r2, lyrics, args, env)
            ELSE [r2 EXCEPT !.outcome = "skipped_prompt"]
       ELSE after_prompt(r1, lyrics, args, env)

\* ------------------------------------------------------------------ state
VARIABLES
  args,        \* the parsed command line of the current run
  disk,        \* the library: for every file its tags and its sidecar
  remote,      \* the lyrics service: the lyrics it has for a file, once asked
  user,        \* the user: the answer given for a file, once asked
  yes_to_all,  \* yes_to_all[0]
  log_lines,   \* main's log_lines: <<file, outcome>> per processed file
  pc,          \* where main is: "call" | "walking" | "done" | "crashed"
  exit_code,   \* the exit status of the process once it has ended
  run,         \* 1 in the first run of main, 2 in the second
  prev_log,    \* log_lines of the first run, once a second run started
  last         \* the latest call of process_file: its inputs and its result

vars == <<args, disk, remote, user, yes_to_all, log_lines, pc, exit_code, run,
          prev_log, last>>

Running == "running"
ExitOK == "exit 0"
ExitTraceback == "exit 1 (traceback)"

\* A readable, tagged file with no lyrics yet.
PristineFile ==
  [readable |-> TRUE, artist |-> "Foo", title |-> "Bar", LYRICS |-> Absent,
   lrc |-> NoFile]

NoCall ==
  [f |-> 0, run |-> 0, pre |-> PristineFile, yes_before |-> FALSE]
  @@ NoEffect(PristineFile, FALSE)

\* os.walk(args.directory) filtered on ".flac": a directory that does not
\* exist yields nothing (os.walk ignores the error of listing it).
Walk(a) == IF DirExists(a.directory) THEN [i \in 1..NumFiles |-> i] ELSE << >>

\* The inputs a call of process_file on file f reads from its environment,
\* which answers a file the way it answered it before. An input the call
\* does not read is not drawn: it stays at its value in NoInput.
NoInput ==
  [resp |-> NotAsked, ans |-> "y", lrc_io |-> "ok", flac_io |-> "ok"]

Service(f) ==
  IF remote[f] = Unknown THEN Responses
  ELSE {x \in Responses : fetch_lyrics(x) = remote[f]}

User(f) == IF user[f] = Unknown THEN ValidAnswers ELSE {user[f]}

Inputs(f, file, a, yes) ==
  LET P(e) == process_file(file, a, yes, e)
      E1 == IF P(NoInput).fetched
            THEN {[NoInput EXCEPT !.resp = x] : x \in Service(f)}
            ELSE {NoInput}
      E2 == UNION {IF P(e).prompted
                   THEN {[e EXCEPT !.ans = x] : x \in User(f)}
                   ELSE {e} : e \in E1}
      E3 == UNION {IF P(e).called_lrc
                   THEN {[e EXCEPT !.lrc_io = x] : x \in LrcIO}
                   ELSE {e} : e \in E2}
  IN UNION {IF P(e).called_tag
            THEN {[e EXCEPT !.flac_io = x] : x \in FlacIO}
            ELSE {e} : e \in E3}

\* The effect of process_file(f) on everything but main's own variables.
Called(f, r) ==
  /\ disk' = [disk EXCEPT ![f] = r.file]
  /\ yes_to_all' = r.yes
  /\ last' = [f |-> f, run |-> run, pre |-> disk[f], yes_before |-> yes_to_all] @@ r

Asked(f, r, env) ==
  /\ remote' = IF r.fetched THEN [remote EXCEPT ![f] = r.lyrics] ELSE remote
  /\ user' = IF r.prompted THEN [user EXCEPT ![f] = env.ans] ELSE user

InitRun ==
  /\ remote = [f \in Files |-> Unknown]
  /\ user = [f \in Files |-> Unknown]
  /\ log_lines = << >>
  /\ exit_code = Running
  /\ run = 1
  /\ prev_log = << >>
  /\ last = NoCall

\* main after parse_args: log_lines = [], yes_to_all = [False].
Init ==
  /\ InitRun
  /\ args \in Args
  /\ disk \in [Files -> LibraryFiles]
  /\ yes_to_all = FALSE
  /\ pc = "walking"

\* One iteration of main's loop: process_file, then the log line. A call
\* that raises ends the process with a traceback.
ProcessNext ==
  /\ pc = "walking"
  /\ Len(log_lines) < Len(Walk(args))
  /\ LET f == Walk(args)[Len(log_lines) + 1] IN
     \E env \in Inputs(f, disk[f], args, yes_to_all) :
       /\ LET r == process_file(disk[f], args, yes_to_all, env) IN
          /\ Called(f, r)
          /\ Asked(f, r, env)
          /\ IF r.raised
             THEN /\ pc' = "crashed"
                  /\ exit_code' = ExitTraceback
                  /\ log_lines' = log_lines
             ELSE /\ pc' = pc
                  /\ exit_code' = exit_code
                  /\ log_lines' = Append(log_lines, <<f, r.outcome>>)
  /\ UNCHANGED <<args, run, prev_log>>

\* The loop is over: the summary is printed and the process exits normally.
Finish ==
  /\ pc = "walking"
  /\ Len(log_lines) = Len(Walk(args))
  /\ pc' = "done"
  /\ exit_code' = ExitOK
  /\ UNCHANGED <<args, disk, remote, user, yes_to_all, log_lines, run, prev_log, last>>

\* The program is started again on the same directory with the same arguments.
Rerun ==
  /\ pc \in {"done", "crashed"}
  /\ run = 1
  /\ run' = 2
  /\ prev_log' = log_lines
  /\ log_lines' = << >>
  /\ yes_to_all' = FALSE
  /\ pc' = "walking"
  /\ exit_code' = Running
  /\ UNCHANGED <<args, disk, remote, user, last>>

Next == ProcessNext \/ Finish

Spec == Init /\ [][Next]_vars

NextTwice == ProcessNext \/ Finish \/ Rerun

\* Two runs without --force on a directory that exists.
InitTwice == Init /\ ~args.force /\ DirExists(args.directory)

SpecTwice == InitTwice /\ [][NextTwice]_vars

\* One call of process_file with any file, arguments and yes_to_all.
InitFile ==
  /\ InitRun
  /\ args \in [directory : {"music"}, force : BOOLEAN, prompt : BOOLEAN,
               dry_run : BOOLEAN]
  /\ \E file \in AnyFile : disk = [f \in Files |-> IF f = 1 THEN file ELSE PristineFile]
  /\ yes_to_all \in BOOLEAN
  /\ pc = "call"

CallProcessFile ==
  /\ pc = "call"
  /\ \E env \in Inputs(1, disk[1], args, yes_to_all) :
       LET r == process_file(disk[1], args, yes_to_all, env) IN
       /\ Called(1, r)
       /\ Asked(1, r, env)
       /\ pc' = IF r.raised THEN "raised" ELSE "returned"
  /\ UNCHANGED <<args, log_lines, exit_code, run, prev_log>>

NextFile == CallProcessFile

SpecFile == InitFile /\ [][NextFile]_vars

\* ----------------------------------------------------------------- claims
\* The latest call, in the words of the claims.
WasCalled == last.f # 0

LacksTag(file) == file.artist \in {Absent, ""} \/ file.title \in {Absent, ""}

Tagged(file) == file.readable /\ ~LacksTag(file)

Found == last.fetched /\ last.lyrics \notin {Null, ""}

Declined == last.prompted /\ last.answer = "n"

ReachedWrite == Found /\ ~Declined /\ ~args.dry_run

Untouched == disk[last.f] = last.pre

\* C1: a file whose artist or title is absent or empty gets missing_tags and
\* no lookup, whatever force, prompt, dry_run and the existing lyrics are.
C1_MissingTags ==
  WasCalled /\ last.pre.readable /\ LacksTag(last.pre)
    => last.outcome = "missing_tags" /\ ~last.fetched

C1_Witness ==
  /\ WasCalled /\ last.pre.readable
  /\ last.pre.artist = "" /\ last.pre.title = "Bar"
  /\ args.force /\ args.prompt /\ last.pre.lrc = OldText
  /\ last.outcome = "missing_tags"

\* C2: a tagged file that has a sidecar or an embedded lyrics tag, without
\* force and without prompt, gets skipped_existing, no lookup and no change.
C2_SkipExisting ==
  /\ WasCalled /\ Tagged(last.pre)
  /\ last.pre.lrc # NoFile \/ last.pre.LYRICS # Absent
  /\ ~args.force /\ ~args.prompt
  => last.outcome = "skipped_existing" /\ ~last.fetched /\ Untouched

C2_Witness ==
  /\ WasCalled /\ Tagged(last.pre)
  /\ last.pre.lrc = NoFile /\ last.pre.LYRICS = OldText
  /\ ~args.force /\ ~args.prompt /\ ~args.dry_run
  /\ last.outcome = "skipped_existing"

\* C3 as claimed: with dry_run, once lyrics are found the outcome is dry_run
\* and nothing is written, whatever force, prompt and the answer are.
C3_DryRunWhateverAnswer ==
  WasCalled /\ args.dry_run /\ Found
    => last.outcome = "dry_run" /\ Untouched

\* C3 as amended: with dry_run, once lyrics are found nothing is written, and
\* the outcome is dry_run unless the user answers "n" to the question, which
\* gives skipped_prompt.
C3_DryRun ==
  WasCalled /\ args.dry_run /\ Found
    => /\ last.outcome = IF Declined THEN "skipped_prompt" ELSE "dry_run"
       /\ Untouched

C3_Witness ==
  /\ WasCalled /\ args.dry_run /\ args.force /\ args.prompt /\ Found
  /\ last.prompted /\ last.answer = "a"
  /\ last.pre.lrc = OldText
  /\ last.outcome = "dry_run"

\* C6: a file that reaches the write stage has both writes attempted, and is
\* updated exactly when one of them succeeded, skipped_existing exactly when
\* neither did.
C6_BothWritesAttempted ==
  WasCalled /\ ReachedWrite
    => /\ last.called_lrc /\ last.called_tag
       /\ last.outcome = "updated" <=> (last.wrote_file \/ last.wrote_tag)
       /\ last.outcome = "skipped_existing" <=> (~last.wrote_file /\ ~last.wrote_tag)

C5_YesToAll ==
  /\ [](last.prompted /\ last.answer = "a" => yes_to_all)
  /\ [][yes_to_all =>
          /\ yes_to_all'
          /\ last' # last =>
               /\ ~last'.prompted
               /\ last'.fetched /\ last'.lyrics \notin {Null, ""} =>
                    IF args.dry_run THEN last'.outcome = "dry_run"
                    ELSE last'.called_lrc]_vars

C5_Witness ==
  /\ last.f = 2 /\ last.yes_before /\ yes_to_all
  /\ Found /\ ~last.prompted
  /\ last.pre.lrc = OldText /\ last.pre.LYRICS = Absent
  /\ last.outcome = "updated"

\* C7: a failure to write the sidecar or to save the tag only counts as "not
\* written": the other write is still attempted, the file gets its log line
\* and the run goes on.
C7_PersistenceFailureContained ==
  WasCalled /\ (last.lrc_raised \/ last.tag_caught)
    => /\ pc # "crashed"
       /\ last.called_tag
       /\ \E i \in 1..Len(log_lines) : log_lines[i][1] = last.f

\* C8: a run on a directory that does not exist never exits normally.
C8_InvalidDirectoryFails ==
  ~DirExists(args.directory) => exit_code # ExitOK

\* C4 as claimed: in a second run without force, every file the first run
\* updated is skipped_existing and left as it was.
UpdatedBefore(f) ==
  \E i \in 1..Len(prev_log) : prev_log[i] = <<f, "updated">>

C4_Idempotent ==
  WasCalled /\ last.run = 2 /\ ~args.force /\ UpdatedBefore(last.f)
    => ~last.raised /\ last.outcome = "skipped_existing" /\ Untouched

\* C4 as amended: the same, the persistence failures repeating themselves
\* too: an embedded write that failed in the first run does not succeed in
\* the second.
C4_IdempotentUnlessEmbedRecovers ==
  /\ WasCalled /\ last.run = 2 /\ ~args.force /\ UpdatedBefore(last.f)
  /\ ~(last.pre.LYRICS = Absent /\ last.wrote_tag)
  => ~last.raised /\ last.outcome = "skipped_existing" /\ Untouched

C4_Witness ==
  /\ last.run = 2 /\ last.f = 2 /\ args.prompt /\ UpdatedBefore(last.f)
  /\ last.pre.lrc = SyncedText /\ last.pre.LYRICS = OldText
  /\ Found /\ ~last.prompted /\ last.called_lrc /\ last.called_tag
  /\ last.outcome = "skipped_existing"

====
